---- MODULE Spec2Model ----
(***************************************************************************)
(* Model of the conversational orchestrator of Sales_Agent                 *)
(* (agents/orchestrator.py), its retrieval and analysis agents, the        *)
(* conversation state and the code executor.                               *)
(*                                                                         *)
(* Text is modelled by TLA+ strings and the Python string operations by    *)
(* operators over them.  Two characters cannot be written in a TLA+        *)
(* string: the backtick of a markdown fence is written "~", and the emoji  *)
(* that open the program's messages are written "[ok] " and "[x] ".        *)
(***************************************************************************)
EXTENDS Integers, Sequences, FiniteSets, TLC

(***************************************************************************)
(* Bounds of the model.                                                    *)
(***************************************************************************)
\* number of start()/respond() calls explored in one behaviour
MaxTurns == 3

(***************************************************************************)
(* Python string operations.                                               *)
(***************************************************************************)
\* Python's None, for the Optional[str] fields
None == "None"

\* `k in s`
Contains(s, k) ==
    \E i \in 1..(Len(s) - Len(k) + 1) : SubSeq(s, i, i + Len(k) - 1) = k

\* s.startswith(k)
StartsWith(s, k) == Len(s) >= Len(k) /\ SubSeq(s, 1, Len(k)) = k

UpperCase == "ABCDEFGHIJKLMNOPQRSTUVWXYZ"
LowerCase == "abcdefghijklmnopqrstuvwxyz"

\* upper-case letter |-> its lower-case letter
LowerMap ==
    [c \in {SubSeq(UpperCase, i, i) : i \in 1..26} |->
        LET i == CHOOSE j \in 1..26 : SubSeq(UpperCase, j, j) = c
        IN  SubSeq(LowerCase, i, i)]

LowerChar(c) == IF c \in DOMAIN LowerMap THEN LowerMap[c] ELSE c

RECURSIVE Lower(_)
\* s.lower()
Lower(s) ==
    IF Len(s) = 0 THEN ""
    ELSE LowerChar(SubSeq(s, 1, 1)) \o Lower(SubSeq(s, 2, Len(s)))

IsSpace(c) == c \in {" ", "\n", "\t", "\r"}

RECURSIVE LStrip(_)
LStrip(s) ==
    IF Len(s) > 0 /\ IsSpace(SubSeq(s, 1, 1)) THEN LStrip(SubSeq(s, 2, Len(s))) ELSE s

RECURSIVE RStrip(_)
RStrip(s) ==
    IF Len(s) > 0 /\ IsSpace(SubSeq(s, Len(s), Len(s)))
    THEN RStrip(SubSeq(s, 1, Len(s) - 1)) ELSE s

\* s.strip()
Strip(s) == RStrip(LStrip(s))

RECURSIVE ReSubLiteral(_, _)
\* re.sub(pat, '', s) for a pattern without metacharacters: every
\* non-overlapping occurrence, scanning from the left, is removed
ReSubLiteral(pat, s) ==
    IF ~ Contains(s, pat) THEN s
    ELSE LET i == CHOOSE j \in 1..(Len(s) - Len(pat) + 1) :
                      /\ SubSeq(s, j, j + Len(pat) - 1) = pat
                      /\ \A k \in 1..(j - 1) : SubSeq(s, k, k + Len(pat) - 1) # pat
         IN  SubSeq(s, 1, i - 1) \o ReSubLiteral(pat, SubSeq(s, i + Len(pat), Len(s)))

\* index of the last "/" of p, 0 when there is none
LastSlash(p) ==
    IF \E i \in 1..Len(p) : SubSeq(p, i, i) = "/"
    THEN CHOOSE i \in 1..Len(p) :
            /\ SubSeq(p, i, i) = "/"
            /\ \A j \in (i + 1)..Len(p) : SubSeq(p, j, j) # "/"
    ELSE 0

\* Path(p).name
PathName(p) == SubSeq(p, LastSlash(p) + 1, Len(p))

\* Path(p).suffix.lower(): the last component from its last dot on
PathSuffix(p) ==
    LET n == PathName(p)
        dots == {i \in 2..Len(n) : SubSeq(n, i, i) = "."}
    IN  IF dots = {} THEN ""
        ELSE LET d == CHOOSE i \in dots : \A j \in dots : j <= i
             IN  Lower(SubSeq(n, d, Len(n)))

RECURSIVE SumSeq(_)
SumSeq(s) == IF s = <<>> THEN 0 ELSE Head(s) + SumSeq(Tail(s))

RECURSIVE JoinNums(_, _)
\* sep.join(map(str, xs))
JoinNums(sep, xs) ==
    IF xs = <<>> THEN ""
    ELSE IF Len(xs) = 1 THEN ToString(xs[1])
    ELSE ToString(xs[1]) \o sep \o JoinNums(sep, Tail(xs))

RECURSIVE Commas(_)
\* the thousands separators of format(n, ",")
Commas(d) ==
    IF Len(d) <= 3 THEN d
    ELSE Commas(SubSeq(d, 1, Len(d) - 3)) \o "," \o SubSeq(d, Len(d) - 2, Len(d))

\* f"{n:,.2f}" for a whole number n >= 0
Format2f(n) == Commas(ToString(n)) \o ".00"

(***************************************************************************)
(* The environment: the file system, Google Drive and the LLM.             *)
(***************************************************************************)
\* the process's working directory (Path.absolute() prefixes it)
Cwd == "/w"

\* Path(p).absolute() as a string
Absolute(p) == IF StartsWith(p, "/") THEN p ELSE Cwd \o "/" \o p

\* the sales values of the six rows of tests/test_statistics.py
SampleRows == <<1000, 1500, 2000, 2500, 1800, 2200>>

\* what the file system holds: absolute path |-> kind of entry; a "table"
\* parses with the reader of its suffix, and has, besides its sales column,
\* a quantity column of numbers or of text
Files ==
    [p \in {"/w/data.csv", "/w/notes.txt", "/w/reports",
            "/w/temp_downloads/sheet.xlsx", "/w/temp_downloads/doc.pdf"} |->
        CASE p = "/w/data.csv" ->
                [kind |-> "table", rows |-> SampleRows, quantity |-> "numbers"]
          [] p = "/w/temp_downloads/sheet.xlsx" ->
                [kind |-> "table", rows |-> <<700, 300>>, quantity |-> "text"]
          [] p = "/w/reports" -> [kind |-> "dir", rows |-> <<>>, quantity |-> "none"]
          [] OTHER -> [kind |-> "other", rows |-> <<>>, quantity |-> "none"]]

\* Path(p).exists()
PathExists(p) == Absolute(p) \in DOMAIN Files

\* Path(p).is_file()
PathIsFile(p) == PathExists(p) /\ Files[Absolute(p)].kind # "dir"

\* what GoogleDriveClient() and download_file() can do for one request
DriveOutcomes == {"sheet.xlsx", "doc.pdf", "no_credentials", "api_error"}

\* a dataset: Python's None, or a DataFrame with its rows of sales values
NoneDf == [some |-> FALSE, rows |-> <<>>]
DataFrame(rows) == [some |-> TRUE, rows |-> rows]

(***************************************************************************)
(* Values of the output binding `result`.                                  *)
(***************************************************************************)
Value(kind, n, s, rows) == [kind |-> kind, n |-> n, s |-> s, rows |-> rows]
NoneV == Value("None", 0, "", <<>>)
NumV(n) == Value("Number", n, "", <<>>)
TextV(s) == Value("Text", 0, s, <<>>)
TableV(rows) == Value("Table", 0, "", rows)
ListV(xs) == Value("List", 0, "", xs)
\* a dict; s is its "output_file" entry, "" when it has none
DictV(s) == Value("Dict", 0, s, <<>>)

\* the types with a .get method: dict and DataFrame
HasGet(v) == v.kind \in {"Dict", "Table"}

\* v.get("output_file") for a value with a .get method
GetOutputFile(v) == IF v.kind = "Dict" /\ v.s # "" THEN v.s ELSE None

(***************************************************************************)
(* utils/code_executor.py                                                  *)
(***************************************************************************)
unsafe_keywords ==
    <<"os.", "sys.", "subprocess.", "eval(", "exec(",
      "open(", "import os", "import sys", "shutil",
      "requests.", "urllib.", "input(">>

\* unsafe_operations_check with the loop left after its first keyword
UnsafeCheckFirstKeyword(code) == ~ Contains(code, unsafe_keywords[1])

unsafe_operations_check(code) ==
    ~ \E i \in DOMAIN unsafe_keywords : Contains(code, unsafe_keywords[i])

\* the names local_vars binds for the executed code
local_vars == {"df", "pd", "np", "plt", "sns", "result"}

\* exec(code, {}, local_vars) puts __builtins__ into the empty globals: the
\* interpreter's built-in names the statements below use
builtins == {"len", "ValueError", "SystemExit"}

\* a name the executed code can look up
Resolvable(name) == name \in local_vars \cup builtins

\* the file temp_downloads/chart.png: absent, or the series it shows
NoChart == [written |-> FALSE, series |-> <<>>]
Chart(series) == [written |-> TRUE, series |-> series]

\* The statements generated code is made of in this model, one per line.
\* The state of a run is the DataFrame object the engine holds (rows), the
\* object the local name df is bound to (local; shared says it is still the
\* engine's object), the value of result, the exception that ended it, the
\* series drawn on the figure, and the chart file the run has written.
RunState(rows) ==
    [rows |-> rows, local |-> rows, shared |-> TRUE, result |-> NoneV,
     raised |-> "none", error |-> "", figure |-> <<>>, chart |-> NoChart]

NameError(rs, name) ==
    [rs EXCEPT !.raised = "Exception",
               !.error = "name '" \o name \o "' is not defined"]

Raise(rs, class, text) == [rs EXCEPT !.raised = class, !.error = text]

ExecLine(rs, line) ==
    CASE line = "result = df['sales'].sum()" ->
            [rs EXCEPT !.result = NumV(SumSeq(rs.local))]
      [] line = "result = df" ->
            [rs EXCEPT !.result = TableV(rs.local)]
      [] line = "result = 'Chart saved to temp_downloads/chart.png'" ->
            [rs EXCEPT !.result = TextV("Chart saved to temp_downloads/chart.png")]
      [] line = "result = df['sales'].tolist()" ->
            [rs EXCEPT !.result = ListV(rs.local)]
      [] line = "result = {}" ->
            [rs EXCEPT !.result = DictV("")]
      [] line = "result = {'output_file': 'out.xlsx'}" ->
            [rs EXCEPT !.result = DictV("out.xlsx")]
      [] line = "df.drop(df.index[0], inplace=True)" ->
            IF rs.local = <<>> THEN Raise(rs, "Exception", "index 0 is out of bounds")
            ELSE [rs EXCEPT !.local = Tail(rs.local),
                            !.rows = IF rs.shared THEN Tail(rs.local) ELSE rs.rows]
      [] line = "df = df.head(1)" ->
            [rs EXCEPT !.local = IF rs.local = <<>> THEN <<>>
                                 ELSE SubSeq(rs.local, 1, 1),
                       !.shared = FALSE]
      [] line = "result = len(df)" ->
            IF Resolvable("len") THEN [rs EXCEPT !.result = NumV(Len(rs.local))]
            ELSE NameError(rs, "len")
      [] line = "df['sales'].plot()" ->
            [rs EXCEPT !.figure = rs.local]
      [] line = "plt.savefig('temp_downloads/chart.png')" ->
            [rs EXCEPT !.chart = Chart(rs.figure)]
      [] line = "raise ValueError('bad')" ->
            IF Resolvable("ValueError") THEN Raise(rs, "Exception", "bad")
            ELSE NameError(rs, "ValueError")
      [] line = "raise SystemExit" ->
            IF Resolvable("SystemExit") THEN Raise(rs, "BaseException", "")
            ELSE NameError(rs, "SystemExit")
      [] line = "import os" -> rs
      [] line = "os.getcwd()" ->
            IF Resolvable("os") THEN rs ELSE NameError(rs, "os")
      [] OTHER -> NameError(rs, line)

\* the first line of code, and what follows it
FirstLine(code) ==
    IF Contains(code, "\n")
    THEN SubSeq(code, 1, (CHOOSE i \in 1..Len(code) :
                            /\ SubSeq(code, i, i) = "\n"
                            /\ \A j \in 1..(i - 1) : SubSeq(code, j, j) # "\n") - 1)
    ELSE code

RestLines(code) ==
    IF Contains(code, "\n")
    THEN SubSeq(code, Len(FirstLine(code)) + 2, Len(code))
    ELSE ""

RECURSIVE ExecCode(_, _)
\* exec(code, {}, local_vars): the lines run in order until one raises
ExecCode(rs, code) ==
    IF code = "" \/ rs.raised # "none" THEN rs
    ELSE ExecCode(ExecLine(rs, FirstLine(code)), RestLines(code))

\* The outcome of execute_pandas_code(df, code): the returned dict (success,
\* result, error), the rows the engine's DataFrame holds afterwards, whether
\* exec() ran, the class of an exception the function lets through, and the
\* chart file the code wrote.
ExecOutcome(success, error, result, rows, ran, raised, chart) ==
    [success |-> success, error |-> error, result |-> result, rows |-> rows,
     ran |-> ran, raised |-> raised, chart |-> chart]

\* CaptureResult with modified_df, the object the name df is bound to after a
\* successful run, taken for the engine's DataFrame
CaptureResultAdopting(rs) ==
    CASE rs.raised = "none" ->
            ExecOutcome(TRUE, "", rs.result, rs.local, TRUE, "none", rs.chart)
      [] rs.raised = "Exception" ->
            ExecOutcome(FALSE, rs.error, NoneV, rs.rows, TRUE, "none", rs.chart)
      [] OTHER ->
            ExecOutcome(FALSE, "", NoneV, rs.rows, TRUE, rs.raised, rs.chart)

\* the try block around exec(): only an Exception is caught
CaptureResult(rs) ==
    CASE rs.raised = "none" ->
            ExecOutcome(TRUE, "", rs.result, rs.rows, TRUE, "none", rs.chart)
      [] rs.raised = "Exception" ->
            ExecOutcome(FALSE, rs.error, NoneV, rs.rows, TRUE, "none", rs.chart)
      [] OTHER ->
            ExecOutcome(FALSE, "", NoneV, rs.rows, TRUE, rs.raised, rs.chart)

execute_pandas_code(df, code) ==
    IF ~ unsafe_operations_check(code)
    THEN ExecOutcome(FALSE, "Unsafe code detected", NoneV, df.rows, FALSE, "none",
                     NoChart)
    ELSE CaptureResult(ExecCode(RunState(df.rows), code))

(***************************************************************************)
(* functions/data_ops.py, data_sources/local_storage.py                    *)
(***************************************************************************)
\* read_sales_data(path): the DataFrame read, or the text of the exception
read_sales_data(path) ==
    IF ~ PathExists(path)
    THEN [ok |-> FALSE, rows |-> <<>>, error |-> "File not found: " \o path]
    ELSE LET suffix == PathSuffix(path)
             f == Files[Absolute(path)]
         IN  IF suffix \notin {".csv", ".xlsx", ".xls", ".json"}
             THEN [ok |-> FALSE, rows |-> <<>>,
                   error |-> "Error reading file " \o path \o
                             ": Unsupported file format: " \o suffix]
             ELSE IF f.kind # "table"
             THEN [ok |-> FALSE, rows |-> <<>>,
                   error |-> "Error reading file " \o path \o ": parse error"]
             ELSE [ok |-> TRUE, rows |-> f.rows, error |-> ""]

\* calculate_insights(df), df being the DataFrame read from path: "ok" when
\* it returns the insights, else the class of the exception it raises
\* (mean() of a quantity column of text raises TypeError)
calculate_insights(path) ==
    IF Files[Absolute(path)].quantity = "text" THEN "Exception" ELSE "ok"

\* get_local_file(path): the absolute path, or the exception raised
get_local_file(file_path) ==
    IF ~ PathExists(file_path)
    THEN [raised |-> "FileNotFoundError", path |-> None,
          error |-> "File not found: " \o file_path]
    ELSE IF ~ PathIsFile(file_path)
    THEN [raised |-> "ValueError", path |-> None,
          error |-> "Path is not a file: " \o file_path]
    ELSE [raised |-> "none", path |-> Absolute(file_path), error |-> ""]

(***************************************************************************)
(* utils/conversation_state.py                                             *)
(***************************************************************************)
\* ConversationState(); none marks the orchestrator's state = None
ConversationState ==
    [none |-> FALSE,
     original_query |-> "",
     data_source |-> None,
     data_path |-> None,
     downloaded_file_path |-> None,
     dataframe_loaded |-> FALSE,
     analysis_complete |-> FALSE,
     results |-> DictV(""),
     output_file_path |-> None,
     messages |-> <<>>]

NoState == [ConversationState EXCEPT !.none = TRUE]

add_message(st, role, content) ==
    [st EXCEPT !.messages = Append(@, [role |-> role, content |-> content])]

set_data_source(st, source, path) ==
    [st EXCEPT !.data_source = source, !.data_path = path]

set_downloaded_file(st, file_path) ==
    [st EXCEPT !.downloaded_file_path = file_path, !.dataframe_loaded = TRUE]

set_results(st, results) ==
    [st EXCEPT !.results = results, !.analysis_complete = TRUE]

set_output_file(st, file_path) ==
    [st EXCEPT !.output_file_path = file_path]

is_complete(st) ==
    st.dataframe_loaded /\ st.analysis_complete /\ st.output_file_path # None

(***************************************************************************)
(* agents/data_retrieval_agent.py                                          *)
(***************************************************************************)
AnyIn(keywords, s) == \E k \in keywords : Contains(s, k)

detect_data_source(user_input) ==
    LET user_input_lower == Lower(user_input)
    IN  CASE AnyIn({"drive", "google", "gdrive"}, user_input_lower) -> "google_drive"
          [] AnyIn({"s3", "aws", "bucket"}, user_input_lower) -> "s3"
          [] AnyIn({"local", "file", "computer", "disk"}, user_input_lower) -> "local"
          [] Contains(user_input_lower, "drive.google.com")
             \/ Contains(user_input_lower, "docs.google.com") -> "google_drive"
          [] StartsWith(user_input_lower, "s3://") -> "s3"
          [] PathExists(user_input) -> "local"
          [] OTHER -> None

ask_for_data_location == "Where is your data stored? Please specify:"

ask_for_path(data_source) ==
    CASE data_source = "google_drive" -> "Please share your Google Drive file link or ID"
      [] data_source = "local" -> "Please provide the full path to your file"
      [] data_source = "s3" -> "Please provide the S3 bucket and key"
      [] OTHER -> "Please provide the file path or link"

\* the class [a-zA-Z0-9-_] of extract_file_id's patterns
IsIdChar(c) == Contains(UpperCase \o LowerCase \o "0123456789-_", c)

\* GoogleDriveClient.extract_file_id finds an ID in url_or_id
HasFileId(url_or_id) ==
    \/ ~ Contains(url_or_id, "/")
    \/ \E i \in 1..Len(url_or_id) :
          /\ i + 3 <= Len(url_or_id)
          /\ SubSeq(url_or_id, i, i + 2) \in {"/d/", "id="}
          /\ IsIdChar(SubSeq(url_or_id, i + 3, i + 3))

\* (success, message, file_path) and the state, drive being what Google
\* Drive does for this request
_retrieve_from_google_drive(url_or_id, st, drive) ==
    CASE drive = "no_credentials" ->
            [success |-> FALSE, file_path |-> None, st |-> st,
             message |-> "[x] Credentials file not found: credentials/credentials.json"]
      [] ~ HasFileId(url_or_id) ->
            [success |-> FALSE, file_path |-> None, st |-> st,
             message |-> "[x] Google Drive error: Could not extract file ID from: "
                         \o url_or_id]
      [] drive = "api_error" ->
            [success |-> FALSE, file_path |-> None, st |-> st,
             message |-> "[x] Google Drive error: HttpError"]
      [] OTHER ->
            LET file_path == "temp_downloads/" \o drive
            IN  [success |-> TRUE, file_path |-> file_path,
                 st |-> set_downloaded_file(st, file_path),
                 message |-> "[ok] Successfully downloaded file from Google Drive! File: "
                             \o PathName(file_path)]

\* _retrieve_from_local with the file recorded before it is validated
RetrieveFromLocalUnvalidated(file_path, st) ==
    LET got == get_local_file(file_path)
    IN  CASE got.raised = "FileNotFoundError" ->
                [success |-> FALSE, file_path |-> None,
                 st |-> set_downloaded_file(st, file_path),
                 message |-> "[x] File not found: " \o file_path]
          [] got.raised # "none" ->
                [success |-> FALSE, file_path |-> None,
                 st |-> set_downloaded_file(st, file_path),
                 message |-> "[x] Error accessing local file: " \o got.error]
          [] OTHER ->
                [success |-> TRUE, file_path |-> got.path,
                 st |-> set_downloaded_file(st, got.path),
                 message |-> "[ok] Found local file! File: " \o PathName(got.path)]

_retrieve_from_local(file_path, st) ==
    LET got == get_local_file(file_path)
    IN  CASE got.raised = "FileNotFoundError" ->
                [success |-> FALSE, file_path |-> None, st |-> st,
                 message |-> "[x] File not found: " \o file_path]
          [] got.raised # "none" ->
                [success |-> FALSE, file_path |-> None, st |-> st,
                 message |-> "[x] Error accessing local file: " \o got.error]
          [] OTHER ->
                [success |-> TRUE, file_path |-> got.path,
                 st |-> set_downloaded_file(st, got.path),
                 message |-> "[ok] Found local file! File: " \o PathName(got.path)]

retrieve_data(data_source, path, st, drive) ==
    CASE data_source = "google_drive" -> _retrieve_from_google_drive(path, st, drive)
      [] data_source = "local" -> _retrieve_from_local(path, st)
      [] data_source = "s3" ->
            [success |-> FALSE, file_path |-> None, st |-> st,
             message |-> "[x] S3 integration coming soon!"]
      [] OTHER ->
            [success |-> FALSE, file_path |-> None, st |-> st,
             message |-> "[x] Unknown data source: " \o data_source]

(***************************************************************************)
(* agents/analysis_agent.py                                                *)
(***************************************************************************)
\* what self.llm.invoke(prompt) does: it raises, or returns a completion
ProviderError == [fails |-> TRUE, content |-> ""]
Completion(text) == [fails |-> FALSE, content |-> text]

\* _proactive_analysis without its try block: what calculate_insights raises
\* gets out
_proactive_analysisUnguarded(file_path) ==
    IF calculate_insights(file_path) = "ok" THEN "none" ELSE "Exception"

\* _proactive_analysis() after file_path was read: the class of the exception
\* it lets through; its try block catches every Exception
_proactive_analysis(file_path) ==
    CASE calculate_insights(file_path) = "ok" -> "none"
      [] calculate_insights(file_path) = "Exception" -> "none"
      [] OTHER -> calculate_insights(file_path)

\* load_data(file_path), r being what read_sales_data did: the return value
\* and the engine's df and file_path
LoadResult(df, old_path, file_path, r) ==
    IF ~ r.ok
    THEN [ok |-> FALSE, df |-> df, file_path |-> old_path, error |-> r.error]
    ELSE IF _proactive_analysis(file_path) = "none"
    THEN [ok |-> TRUE, df |-> DataFrame(r.rows), file_path |-> file_path,
          error |-> ""]
    ELSE [ok |-> FALSE, df |-> DataFrame(r.rows), file_path |-> file_path,
          error |-> _proactive_analysis(file_path)]

load_data(df, old_path, file_path) ==
    LoadResult(df, old_path, file_path, read_sales_data(file_path))

\* _generate_code(query): the cleaned code, None when the adapter raised
_generate_code(query, llm) ==
    IF llm.fails THEN None
    ELSE LET code0 == Strip(llm.content)
             code1 == ReSubLiteral("~~~python", code0)
             code2 == ReSubLiteral("~~~", code1)
         IN  Strip(code2)

\* _format_result without the branch for a str: the else branch, str(result)
_format_resultWithoutStr(query, result) ==
    CASE result.kind = "Number" -> "**Result:** " \o Format2f(result.n)
      [] result.kind = "Table" ->
            IF Len(result.rows) > 10
            THEN "**Result DataFrame (Top 10 rows):**\n\n"
                 \o JoinNums("\n", SubSeq(result.rows, 1, 10))
            ELSE "**Result DataFrame:**\n\n" \o JoinNums("\n", result.rows)
      [] result.kind = "Text" -> result.s
      [] result.kind = "List" -> "**Result:** " \o JoinNums(", ", result.rows)
      [] result.kind = "Dict" ->
            IF result.s = "" THEN "{}" ELSE "{'output_file': '" \o result.s \o "'}"
      [] OTHER -> "None"

_format_result(query, result) ==
    CASE result.kind = "Number" -> "**Result:** " \o Format2f(result.n)
      [] result.kind = "Table" ->
            IF Len(result.rows) > 10
            THEN "**Result DataFrame (Top 10 rows):**\n\n"
                 \o JoinNums("\n", SubSeq(result.rows, 1, 10))
            ELSE "**Result DataFrame:**\n\n" \o JoinNums("\n", result.rows)
      [] result.kind = "Text" -> "**Result:** " \o result.s
      [] result.kind = "List" -> "**Result:** " \o JoinNums(", ", result.rows)
      [] result.kind = "Dict" ->
            IF result.s = "" THEN "{}" ELSE "{'output_file': '" \o result.s \o "'}"
      [] OTHER -> "None"

\* The dict execute_analysis(query) returns (a key that is absent is "absent"
\* or None), the rows of the engine's DataFrame afterwards, the class of an
\* exception it lets through, what it called on the way, and the chart file
\* the generated code wrote.
AnalysisResult(success, message, error, data, rows, raised, outcome, llm_calls, code, chart) ==
    [success |-> success, message |-> message, error |-> error, data |-> data,
     rows |-> rows, raised |-> raised, outcome |-> outcome,
     llm_calls |-> llm_calls, code |-> code, chart |-> chart]

\* steps 2 and 3 of execute_analysis, exec_result being the Sandbox's outcome
FormatOutcome(query, code, exec_result) ==
    IF exec_result.raised # "none"
    THEN AnalysisResult("absent", None, None, NoneV, exec_result.rows,
                        exec_result.raised, "escaped", 1, code, exec_result.chart)
    ELSE IF ~ exec_result.success
    THEN AnalysisResult("false", " Code Execution Failed: " \o exec_result.error,
                        None, NoneV, exec_result.rows, "none",
                        IF exec_result.ran THEN "execution_failed" ELSE "rejected",
                        1, code, exec_result.chart)
    ELSE AnalysisResult("true", _format_result(query, exec_result.result), None,
                        exec_result.result, exec_result.rows, "none", "success",
                        1, code, exec_result.chart)

\* ExecuteGenerated with the test of the generated code made `code is None`:
\* an empty completion is handed to the Sandbox
ExecuteGeneratedUnlessNone(df, query, code) ==
    IF code = None
    THEN AnalysisResult("false", "Failed to generate analysis code.", None, NoneV,
                        df.rows, "none", "generation_failed", 1, None, NoChart)
    ELSE FormatOutcome(query, code, execute_pandas_code(df, code))

\* execute_analysis from the generated code on
ExecuteGenerated(df, query, code) ==
    IF code = None \/ code = ""
    THEN AnalysisResult("false", "Failed to generate analysis code.", None, NoneV,
                        df.rows, "none", "generation_failed", 1, None, NoChart)
    ELSE FormatOutcome(query, code, execute_pandas_code(df, code))

execute_analysis(df, query, llm) ==
    IF ~ df.some
    THEN AnalysisResult("absent", None, "No data loaded", NoneV, df.rows, "none",
                        "no_data", 0, None, NoChart)
    ELSE ExecuteGenerated(df, query, _generate_code(query, llm))

(***************************************************************************)
(* agents/orchestrator.py                                                  *)
(***************************************************************************)
VARIABLES
    current_step,   \* OrchestratorAgent.current_step
    state,          \* OrchestratorAgent.state, NoState for None
    df,             \* AnalysisAgent.df, NoneDf for None
    file_path,      \* AnalysisAgent.file_path
    turn,           \* what the last start()/respond() call did and returned
    retrieved,      \* a retrieval has returned a local path in this session
    executed,       \* a Sandbox execution has succeeded in this session
    nTurns,         \* number of calls so far
    adapter,        \* what the LLM did when the last call consulted it
    chart_png,      \* the file temp_downloads/chart.png
    main,           \* main(): its position, configuration and orchestrator
    sessions,       \* the orchestrators of two conversations in one process
    call            \* the last direct call of a method of AnalysisAgent or of
                    \* a function of functions/statistics.py

vars == <<current_step, state, df, file_path, turn, retrieved, executed, nTurns,
          adapter, chart_png, main, sessions, call>>

\* the orchestrator and its engine as one value, for the handlers below
Orch == [current_step |-> current_step, st |-> state, df |-> df,
         file_path |-> file_path]

\* the record of one call of execute_analysis within a turn
AnalysisTrace(query, rows_before, res) ==
    [query |-> query, outcome |-> res.outcome, data |-> res.data,
     message |-> res.message, llm_calls |-> res.llm_calls, code |-> res.code,
     rows_before |-> rows_before, rows_after |-> res.rows, chart |-> res.chart]

\* what a handler hands back: the objects afterwards, the response (None when
\* it raised), the class of the exception raised, and the record of the turn
Handled(o, response, raised, retrieval, retrieval_message, load, reader_error, analyses) ==
    [o |-> o, response |-> response, raised |-> raised,
     retrieval |-> retrieval, retrieval_message |-> retrieval_message,
     retrieval_source |-> None, retrieval_path |-> None,
     load |-> load, reader_error |-> reader_error, analyses |-> analyses]

_query_needs_data(query) ==
    AnyIn({"sales", "revenue", "data", "quarter", "month", "analyze", "show",
           "calculate"}, Lower(query))

\* AnalysisResponse with a text result taken for the path of an output file
AnalysisResponseTextAsFile(o, query, results) ==
    LET o1 == [o EXCEPT !.df.rows = results.rows]
        tr == <<AnalysisTrace(query, o.df.rows, results)>>
        response == IF results.message = None THEN "Analysis complete!"
                                              ELSE results.message
        o2 == [o1 EXCEPT !.st = set_results(@, results.data)]
    IN  CASE results.raised # "none" ->
                Handled(o1, None, results.raised, "none", None, "none", None, tr)
          [] results.success # "true" ->
                Handled(o1, response, "none", "none", None, "none", None, tr)
          [] results.data.kind = "Text" ->
                Handled([o2 EXCEPT !.st = set_output_file(@, results.data.s)],
                        response, "none", "none", None, "none", None, tr)
          [] ~ HasGet(results.data) ->
                Handled(o2, None, "AttributeError", "none", None, "none", None, tr)
          [] GetOutputFile(results.data) # None ->
                Handled([o2 EXCEPT !.st = set_output_file(@, GetOutputFile(results.data))],
                        response, "none", "none", None, "none", None, tr)
          [] OTHER ->
                Handled(o2, response, "none", "none", None, "none", None, tr)

\* _handle_analysis_query from line 148 on, results being the dict that
\* execute_analysis returned or the exception it let through
AnalysisResponse(o, query, results) ==
    LET o1 == [o EXCEPT !.df.rows = results.rows]
        tr == <<AnalysisTrace(query, o.df.rows, results)>>
        response == IF results.message = None THEN "Analysis complete!"
                                              ELSE results.message
        o2 == [o1 EXCEPT !.st = set_results(@, results.data)]
    IN  CASE results.raised # "none" ->
                Handled(o1, None, results.raised, "none", None, "none", None, tr)
          [] results.success # "true" ->
                Handled(o1, response, "none", "none", None, "none", None, tr)
          [] ~ HasGet(results.data) ->
                Handled(o2, None, "AttributeError", "none", None, "none", None, tr)
          [] GetOutputFile(results.data) # None ->
                Handled([o2 EXCEPT !.st = set_output_file(@, GetOutputFile(results.data))],
                        response, "none", "none", None, "none", None, tr)
          [] OTHER ->
                Handled(o2, response, "none", "none", None, "none", None, tr)

\* _handle_analysis_query(query): the response, or the exception raised
_handle_analysis_query(o, query, llm) ==
    AnalysisResponse(o, query, execute_analysis(o.df, query, llm))

\* _handle_data_path_response after a successful load (lines 131-140), a
\* being what the analysis of the original query handed back
AfterAutoAnalysis(r, a) ==
    IF a.raised # "none"
    THEN Handled(a.o, None, a.raised, "ok", r.message, "ok", None, a.analyses)
    ELSE Handled([a.o EXCEPT !.st = add_message(@, "assistant",
                                                r.message \o "\n\n" \o a.response)],
                 r.message \o "\n\n" \o a.response,
                 "none", "ok", r.message, "ok", None, a.analyses)

\* AfterLoad with the reader's error text as the response to a failed load
AfterLoadReaderText(o, llm, r, l) ==
    IF ~ l.ok
    THEN Handled([o EXCEPT !.st = add_message(@, "assistant", l.error)],
                 l.error, "none", "ok", r.message, "failed", l.error, <<>>)
    ELSE AfterAutoAnalysis(r,
            _handle_analysis_query(
                [o EXCEPT !.df = l.df, !.file_path = l.file_path,
                          !.current_step = "ready_for_analysis"],
                o.st.original_query, llm))

\* _handle_data_path_response after a successful retrieval (lines 126-140),
\* l being what load_data did
\* AfterLoad with a failed load sending the conversation back to the
\* question about the source
AfterLoadStartingOver(o, llm, r, l) ==
    IF ~ l.ok
    THEN Handled([o EXCEPT !.st = add_message(@, "assistant",
                         r.message \o "\n\n[x] Failed to load data for analysis."),
                           !.current_step = "need_data_source"],
                 r.message \o "\n\n[x] Failed to load data for analysis.",
                 "none", "ok", r.message, "failed", l.error, <<>>)
    ELSE AfterAutoAnalysis(r,
            _handle_analysis_query(
                [o EXCEPT !.df = l.df, !.file_path = l.file_path,
                          !.current_step = "ready_for_analysis"],
                o.st.original_query, llm))

\* AfterLoad without the test of what load_data returned
AfterLoadUnchecked(o, llm, r, l) ==
    AfterAutoAnalysis(r,
        _handle_analysis_query(
            [o EXCEPT !.df = l.df, !.file_path = l.file_path,
                      !.current_step = "ready_for_analysis"],
            o.st.original_query, llm))

AfterLoad(o, llm, r, l) ==
    IF ~ l.ok
    THEN Handled([o EXCEPT !.st = add_message(@, "assistant",
                         r.message \o "\n\n[x] Failed to load data for analysis.")],
                 r.message \o "\n\n[x] Failed to load data for analysis.",
                 "none", "ok", r.message, "failed", l.error, <<>>)
    ELSE AfterAutoAnalysis(r,
            _handle_analysis_query(
                [o EXCEPT !.df = l.df, !.file_path = l.file_path,
                          !.current_step = "ready_for_analysis"],
                o.st.original_query, llm))

\* AfterRetrieval with the conversation sent back to the choice of a source
\* when the retrieval fails
AfterRetrievalResetting(o, llm, r) ==
    IF ~ r.success
    THEN Handled([o EXCEPT !.st = add_message(r.st, "assistant", r.message),
                           !.current_step = "need_data_source"],
                 r.message, "none", "failed", r.message, "none", None, <<>>)
    ELSE AfterLoad([o EXCEPT !.st = r.st], llm, r,
                   load_data(o.df, o.file_path, r.file_path))

\* _handle_data_path_response after the retrieval (lines 125-140), r being
\* what retrieve_data returned
AfterRetrieval(o, llm, r) ==
    IF ~ r.success
    THEN Handled([o EXCEPT !.st = add_message(r.st, "assistant", r.message)],
                 r.message, "none", "failed", r.message, "none", None, <<>>)
    ELSE AfterLoad([o EXCEPT !.st = r.st], llm, r,
                   load_data(o.df, o.file_path, r.file_path))

\* the retrieval of _handle_data_path_response (lines 118-123)
Retrieve(o, data_source, user_input, drive, llm) ==
    [AfterRetrieval(o, llm, retrieve_data(data_source, user_input, o.st, drive))
        EXCEPT !.retrieval_source = data_source, !.retrieval_path = user_input]

\* _handle_data_path_response when no source is recorded (lines 110-116)
DetectThenRetrieve(o, user_input, drive, llm, detected) ==
    IF detected = None
    THEN Handled(o, "[x] Could not detect data source. Please start over.",
                 "none", "none", None, "none", None, <<>>)
    ELSE Retrieve([o EXCEPT !.st = set_data_source(@, detected, user_input)],
                  detected, user_input, drive, llm)

\* _handle_data_path_response classifying every input anew
_handle_data_path_responseDetecting(o, user_input, drive, llm) ==
    IF o.st.data_source = None \/ detect_data_source(user_input) # None
    THEN DetectThenRetrieve(o, user_input, drive, llm, detect_data_source(user_input))
    ELSE Retrieve(o, o.st.data_source, user_input, drive, llm)

_handle_data_path_response(o, user_input, drive, llm) ==
    IF o.st.data_source = None
    THEN DetectThenRetrieve(o, user_input, drive, llm, detect_data_source(user_input))
    ELSE Retrieve(o, o.st.data_source, user_input, drive, llm)

\* _handle_data_source_response with the step advanced also when the source
\* was not detected
SourceDetectedAdvancing(o, user_input, drive, llm, data_source) ==
    IF data_source = "google_drive"
       /\ (Contains(user_input, "drive.google.com")
           \/ Contains(user_input, "docs.google.com"))
    THEN _handle_data_path_response(
            [o EXCEPT !.st = set_data_source(@, data_source, ""),
                      !.current_step = "need_data_path"],
            user_input, drive, llm)
    ELSE Handled([o EXCEPT !.st = add_message(
                                    IF data_source # None
                                    THEN set_data_source(@, data_source, "") ELSE @,
                                    "assistant",
                                    IF data_source # None THEN ask_for_path(data_source)
                                    ELSE "[x] I couldn't detect the data source. Please specify:"),
                           !.current_step = "need_data_path"],
                 IF data_source # None THEN ask_for_path(data_source)
                 ELSE "[x] I couldn't detect the data source. Please specify:",
                 "none", "none", None, "none", None, <<>>)

\* _handle_data_source_response without the shortcut for a link given with
\* the source
SourceDetectedAsking(o, user_input, drive, llm, data_source) ==
    IF data_source # None
    THEN Handled([o EXCEPT !.st = add_message(set_data_source(@, data_source, ""),
                                              "assistant", ask_for_path(data_source)),
                           !.current_step = "need_data_path"],
                 ask_for_path(data_source),
                 "none", "none", None, "none", None, <<>>)
    ELSE Handled([o EXCEPT !.st = add_message(@, "assistant",
                         "[x] I couldn't detect the data source. Please specify:")],
                 "[x] I couldn't detect the data source. Please specify:",
                 "none", "none", None, "none", None, <<>>)

\* _handle_data_source_response from line 85 on, data_source being what
\* detect_data_source returned
SourceDetected(o, user_input, drive, llm, data_source) ==
    IF data_source # None
    THEN IF data_source = "google_drive"
            /\ (Contains(user_input, "drive.google.com")
                \/ Contains(user_input, "docs.google.com"))
         THEN _handle_data_path_response(
                 [o EXCEPT !.st = set_data_source(@, data_source, ""),
                           !.current_step = "need_data_path"],
                 user_input, drive, llm)
         ELSE Handled([o EXCEPT !.st = add_message(set_data_source(@, data_source, ""),
                                                   "assistant", ask_for_path(data_source)),
                                !.current_step = "need_data_path"],
                      ask_for_path(data_source),
                      "none", "none", None, "none", None, <<>>)
    ELSE Handled([o EXCEPT !.st = add_message(@, "assistant",
                         "[x] I couldn't detect the data source. Please specify:")],
                 "[x] I couldn't detect the data source. Please specify:",
                 "none", "none", None, "none", None, <<>>)

_handle_data_source_response(o, user_input, drive, llm) ==
    SourceDetected(o, user_input, drive, llm, detect_data_source(user_input))

\* the dispatch of process_user_response (lines 59-71), o having the user's
\* message already
Dispatch(o, user_input, drive, llm) ==
    CASE o.current_step = "need_data_source" ->
            _handle_data_source_response(o, user_input, drive, llm)
      [] o.current_step = "need_data_path" ->
            _handle_data_path_response(o, user_input, drive, llm)
      [] o.current_step = "ready_for_analysis" ->
            _handle_analysis_query(o, user_input, llm)
      [] OTHER ->
            Handled([o EXCEPT !.st = add_message(@, "assistant",
                            "I'm not sure what to do next. Let's start over.")],
                    "I'm not sure what to do next. Let's start over.",
                    "none", "none", None, "none", None, <<>>)

process_user_response(o, user_input, drive, llm) ==
    IF o.st.none
    THEN Handled(o, None, "AttributeError", "none", None, "none", None, <<>>)
    ELSE Dispatch([o EXCEPT !.st = add_message(@, "user", user_input)],
                  user_input, drive, llm)

\* start_conversation from line 38 on
StartResponse(o, st, needs) ==
    Handled([o EXCEPT !.st = add_message(st, "assistant",
                                IF needs THEN ask_for_data_location
                                ELSE "I can help with that, but I need more information..."),
                      !.current_step = IF needs THEN "need_data_source" ELSE @],
            IF needs THEN ask_for_data_location
            ELSE "I can help with that, but I need more information...",
            "none", "none", None, "none", None, <<>>)

start_conversation(o, user_query) ==
    StartResponse(o,
                  add_message([ConversationState EXCEPT !.original_query = user_query],
                              "user", user_query),
                  _query_needs_data(user_query))

(***************************************************************************)
(* The inputs explored.                                                    *)
(***************************************************************************)
Queries ==
    {"Show me this quarter's sales (Nov, Dec, Jan)", "hello"}

Inputs ==
    {"local", "S3 bucket", "Google Drive", "hmm",
     "https://drive.google.com/file/d/1xABC/edit",
     "data.csv", "notes.txt", "s3://my-drive/sales.csv"}

LLMOutputs ==
    {ProviderError,
     Completion("result = df['sales'].sum()"),
     Completion("~~~python\nresult = df['sales'].sum()\n~~~"),
     Completion("result = df"),
     Completion("~~~python\n~~~"),
     Completion("df['sales'].plot()\nplt.savefig('temp_downloads/chart.png')\nresult = 'Chart saved to temp_downloads/chart.png'"),
     Completion("result = len(df)"),
     Completion("result = {'output_file': 'out.xlsx'}"),
     Completion("result = df['sales'].tolist()"),
     Completion("result = {}"),
     Completion("df.drop(df.index[0], inplace=True)"),
     Completion("df.drop(df.index[0], inplace=True)\nresult = df\nraise ValueError('bad')"),
     Completion("df.drop(df.index[0], inplace=True)\nraise SystemExit"),
     Completion("df.drop(df.index[0], inplace=True)\nimport os\nresult = df")}

(***************************************************************************)
(* The state machine.                                                      *)
(***************************************************************************)
TurnRecord(op, user_input, h) ==
    [op |-> op, input |-> user_input, step_before |-> current_step,
     raised |-> h.raised, response |-> h.response,
     retrieval |-> h.retrieval, retrieval_message |-> h.retrieval_message,
     retrieval_source |-> h.retrieval_source, retrieval_path |-> h.retrieval_path,
     load |-> h.load, reader_error |-> h.reader_error, analyses |-> h.analyses,
     df_before |-> df]

NoTurn ==
    [op |-> "none", input |-> "", step_before |-> "initial", raised |-> "none",
     response |-> None, retrieval |-> "none", retrieval_message |-> None,
     retrieval_source |-> None, retrieval_path |-> None,
     load |-> "none", reader_error |-> None, analyses |-> <<>>,
     df_before |-> NoneDf]

\* main() not running, no second conversation, no direct call
MainOff ==
    [pc |-> "off", provider |-> "groq", google_key |-> FALSE, groq_key |-> FALSE,
     orchestrator |-> FALSE, inputs_read |-> 0, last_input |-> ""]
NoSessions == <<>>
NoCall ==
    [op |-> "none", arg |-> "", ok |-> FALSE, response |-> None,
     before |-> NoneDf,
     res |-> AnalysisResult("absent", None, None, NoneV, <<>>, "none", "none", 0,
                            None, NoChart)]

\* OrchestratorAgent()
Init ==
    /\ current_step = "initial"
    /\ state = NoState
    /\ df = NoneDf
    /\ file_path = None
    /\ turn = NoTurn
    /\ retrieved = FALSE
    /\ executed = FALSE
    /\ nTurns = 0
    /\ adapter = ProviderError
    /\ chart_png = NoChart
    /\ main = MainOff
    /\ sessions = NoSessions
    /\ call = NoCall

Succeeded(h) == \E i \in DOMAIN h.analyses : h.analyses[i].outcome = "success"

\* the chart file after a turn that did h
ChartAfter(chart, h) ==
    IF h.analyses # <<>> /\ h.analyses[1].chart.written
    THEN h.analyses[1].chart ELSE chart

\* the call op(user_input) that did h
Apply(op, user_input, h) ==
    /\ current_step' = h.o.current_step
    /\ state' = h.o.st
    /\ df' = h.o.df
    /\ file_path' = h.o.file_path
    /\ turn' = TurnRecord(op, user_input, h)
    /\ retrieved' = ((op # "start" /\ retrieved) \/ h.retrieval = "ok")
    /\ executed' = ((op # "start" /\ executed) \/ Succeeded(h))
    /\ nTurns' = nTurns + 1
    /\ chart_png' = ChartAfter(chart_png, h)

\* start(query)
Start ==
    /\ nTurns < MaxTurns
    /\ \E q \in Queries : Apply("start", q, start_conversation(Orch, q))
    /\ adapter' = ProviderError
    /\ UNCHANGED <<main, sessions, call>>

\* Whether the turn consults Google Drive, and whether it calls the LLM: seen
\* on a run of the turn in which both fail.
ConsultsDrive(h) == h.retrieval_source = "google_drive"
CallsLLM(h) == \E i \in DOMAIN h.analyses : h.analyses[i].llm_calls > 0

\* The outcomes Google Drive and the LLM can have in a turn: all of them
\* when the turn consults the collaborator, one (which is not looked at)
\* when it does not.
DriveChoices(o, user_input) ==
    IF ConsultsDrive(process_user_response(o, user_input, "api_error", ProviderError))
    THEN DriveOutcomes ELSE {"api_error"}

LLMChoices(o, user_input, drive) ==
    IF CallsLLM(process_user_response(o, user_input, drive, ProviderError))
    THEN LLMOutputs ELSE {ProviderError}

\* respond(input)
Respond ==
    /\ nTurns < MaxTurns
    /\ \E user_input \in Inputs :
       \E drive \in DriveChoices(Orch, user_input) :
       \E llm \in LLMChoices(Orch, user_input, drive) :
          /\ Apply("respond", user_input,
                   process_user_response(Orch, user_input, drive, llm))
          /\ adapter' = llm
    /\ UNCHANGED <<main, sessions, call>>

Next == Start \/ Respond

Spec == Init /\ [][Next]_vars

(***************************************************************************)
(* An AnalysisAgent called directly: load_data and execute_analysis in any *)
(* order, as its callers (the orchestrator, the standalone loop of         *)
(* analysis_agent.py) may call it.                                         *)
(***************************************************************************)
EnginePaths == {"data.csv", "notes.txt", "temp_downloads/sheet.xlsx"}

\* what the LLM may answer: as in a conversation, and also a fence with
\* another language tag and code that binds the name df anew
EngineCompletions ==
    LLMOutputs \cup
    {Completion("~~~py\nresult = df['sales'].sum()\n~~~"),
     Completion("df = df.head(1)\nresult = df"),
     Completion("df = df.head(1)\ndf.drop(df.index[0], inplace=True)\nresult = df")}

\* the response _handle_analysis_query makes of a result, in a conversation
\* that has just begun
CallerResponse(query, res) ==
    AnalysisResponse([current_step |-> "ready_for_analysis",
                      st |-> ConversationState, df |-> df,
                      file_path |-> file_path],
                     query, res).response

\* AnalysisAgent(), nothing loaded
EngineInit ==
    /\ df = NoneDf
    /\ file_path = None
    /\ call = NoCall
    /\ nTurns = 0
    /\ adapter = ProviderError
    /\ chart_png = NoChart
    /\ current_step = "initial"
    /\ state = NoState
    /\ turn = NoTurn
    /\ retrieved = FALSE
    /\ executed = FALSE
    /\ main = MainOff
    /\ sessions = NoSessions

\* load_data(path) returned l
Loaded(path, l) ==
    /\ df' = l.df
    /\ file_path' = l.file_path
    /\ call' = [NoCall EXCEPT !.op = "load_data", !.arg = path, !.ok = l.ok,
                              !.before = df]
    /\ adapter' = ProviderError
    /\ UNCHANGED chart_png

EngineLoad ==
    /\ nTurns < MaxTurns
    /\ nTurns' = nTurns + 1
    /\ \E path \in EnginePaths : Loaded(path, load_data(df, file_path, path))
    /\ UNCHANGED <<current_step, state, turn, retrieved, executed, main, sessions>>

\* execute_analysis(query) returned res, or let res.raised through
Executed(query, llm, res) ==
    /\ df' = [df EXCEPT !.rows = res.rows]
    /\ call' = [op |-> "execute_analysis", arg |-> query, ok |-> FALSE,
                response |-> CallerResponse(query, res), before |-> df,
                res |-> res]
    /\ adapter' = llm
    /\ chart_png' = IF res.chart.written THEN res.chart ELSE chart_png
    /\ UNCHANGED file_path

EngineExecute ==
    /\ nTurns < MaxTurns
    /\ nTurns' = nTurns + 1
    /\ \E query \in Queries :
       \E llm \in (IF df.some THEN EngineCompletions ELSE {ProviderError}) :
          Executed(query, llm, execute_analysis(df, query, llm))
    /\ UNCHANGED <<current_step, state, turn, retrieved, executed, main, sessions>>

EngineNext == EngineLoad \/ EngineExecute

EngineSpec == EngineInit /\ [][EngineNext]_vars

(***************************************************************************)
(* Two conversations in one process: two OrchestratorAgent objects, each   *)
(* with its own state and engine, whose turns interleave.  They share the  *)
(* working directory, and so the file temp_downloads/chart.png.            *)
(***************************************************************************)
\* number of calls explored for each of the two orchestrators
MaxSessionTurns == 3

SessionIds == {1, 2}

SessionQueries == {"Show me this quarter's sales (Nov, Dec, Jan)"}

SessionInputs == {"data.csv", "temp_downloads/sheet.xlsx"}

SessionCompletions ==
    {Completion("result = df['sales'].sum()"),
     Completion("df['sales'].plot()\nplt.savefig('temp_downloads/chart.png')\nresult = 'Chart saved to temp_downloads/chart.png'")}

\* OrchestratorAgent(): the object and its engine
NewOrchestrator ==
    [current_step |-> "initial", st |-> NoState, df |-> NoneDf, file_path |-> None]

\* one conversation: its orchestrator, what its last call returned or
\* raised, the chart file as its own analyses have written it, and the
\* number of its calls
NewSession ==
    [o |-> NewOrchestrator, response |-> None, raised |-> "none",
     chart |-> NoChart, turns |-> 0]

SessionsInit ==
    /\ sessions = [s \in SessionIds |-> NewSession]
    /\ chart_png = NoChart
    /\ nTurns = 0
    /\ current_step = "initial"
    /\ state = NoState
    /\ df = NoneDf
    /\ file_path = None
    /\ turn = NoTurn
    /\ retrieved = FALSE
    /\ executed = FALSE
    /\ adapter = ProviderError
    /\ main = MainOff
    /\ call = NoCall

\* a call on the orchestrator of session s did h
SessionApply(s, h) ==
    /\ sessions' = [sessions EXCEPT ![s] =
                      [o |-> h.o, response |-> h.response, raised |-> h.raised,
                       chart |-> ChartAfter(@.chart, h), turns |-> @.turns + 1]]
    /\ chart_png' = ChartAfter(chart_png, h)
    /\ nTurns' = nTurns + 1
    /\ UNCHANGED <<current_step, state, df, file_path, turn, retrieved, executed,
                   adapter, main, call>>

SessionStart ==
    \E s \in SessionIds :
       /\ sessions[s].turns < MaxSessionTurns
       /\ \E q \in SessionQueries :
             SessionApply(s, start_conversation(sessions[s].o, q))

SessionRespond ==
    \E s \in SessionIds :
       /\ sessions[s].turns < MaxSessionTurns
       /\ \E user_input \in SessionInputs :
          \E llm \in SessionCompletions :
             SessionApply(s, process_user_response(sessions[s].o, user_input,
                                                   "api_error", llm))

SessionsNext == SessionStart \/ SessionRespond

SessionsSpec == SessionsInit /\ [][SessionsNext]_vars

(***************************************************************************)
(* main.py: the configuration check, then the loop that reads an input,    *)
(* handles the commands, and hands every other input to the orchestrator   *)
(* of the conversation, which it constructs when there is none.            *)
(***************************************************************************)
\* number of inputs read in one behaviour
MaxInputs == 3

\* values of the setting LLM_PROVIDER
Providers == {"groq", "gemini", "openai"}

Commands == {"exit", "help", "new"}

MainInputs ==
    {"Show me this quarter's sales (Nov, Dec, Jan)", "hello", "local",
     "data.csv", "https://drive.google.com/file/d/1xABC/edit"}

MainCompletions ==
    {ProviderError,
     Completion("result = df['sales'].sum()"),
     Completion("result = {'output_file': 'out.xlsx'}"),
     Completion("df.drop(df.index[0], inplace=True)\nraise SystemExit")}

\* validate_config(): the exception it raises
validate_config(provider, google_key, groq_key) ==
    IF provider = "gemini" /\ ~ google_key THEN "ValueError"
    ELSE IF provider = "groq" /\ ~ groq_key THEN "ValueError"
    ELSE "none"

\* AnalysisAgent.__init__, called by OrchestratorAgent(): the exception it
\* raises
AnalysisAgentInit(provider, google_key, groq_key) ==
    IF provider = "groq"
    THEN IF groq_key THEN "none" ELSE "ValueError"
    ELSE IF google_key THEN "none" ELSE "ValueError"

\* the process starts, in any configuration
MainInit ==
    /\ main \in [pc : {"startup"}, provider : Providers, google_key : BOOLEAN,
                 groq_key : BOOLEAN, orchestrator : {FALSE}, inputs_read : {0},
                 last_input : {""}]
    /\ current_step = "initial"
    /\ state = NoState
    /\ df = NoneDf
    /\ file_path = None
    /\ turn = NoTurn
    /\ retrieved = FALSE
    /\ executed = FALSE
    /\ nTurns = 0
    /\ adapter = ProviderError
    /\ chart_png = NoChart
    /\ sessions = NoSessions
    /\ call = NoCall

\* the variables of the orchestrator and its engine
orchestrator_vars ==
    <<current_step, state, df, file_path, turn, retrieved, executed, nTurns,
      adapter, chart_png>>

\* lines 52-59
MainStartup ==
    /\ main.pc = "startup"
    /\ main' = [main EXCEPT !.pc =
                   IF validate_config(main.provider, main.google_key,
                                      main.groq_key) = "none"
                   THEN "loop" ELSE "aborted"]
    /\ UNCHANGED <<orchestrator_vars, sessions, call>>

\* orchestrator = None: the object and its engine are gone
Discard ==
    /\ current_step' = NewOrchestrator.current_step
    /\ state' = NewOrchestrator.st
    /\ df' = NewOrchestrator.df
    /\ file_path' = NewOrchestrator.file_path
    /\ retrieved' = FALSE
    /\ executed' = FALSE
    /\ UNCHANGED <<turn, nTurns, adapter, chart_png>>

\* an input is read
Read(user_input) ==
    /\ main.pc = "loop"
    /\ main.inputs_read < MaxInputs

\* lines 79-90: the commands
MainCommand ==
    \E user_input \in Commands :
       /\ Read(user_input)
       /\ CASE user_input = "exit" ->
                 /\ main' = [main EXCEPT !.pc = "exited", !.inputs_read = @ + 1,
                                         !.last_input = user_input]
                 /\ UNCHANGED orchestrator_vars
            [] user_input = "help" ->
                 /\ main' = [main EXCEPT !.inputs_read = @ + 1,
                                         !.last_input = user_input]
                 /\ UNCHANGED orchestrator_vars
            [] OTHER ->
                 /\ main' = [main EXCEPT !.orchestrator = FALSE,
                                         !.inputs_read = @ + 1,
                                         !.last_input = user_input]
                 /\ Discard
       /\ UNCHANGED <<sessions, call>>

\* after the call of lines 93-99 that did h: an exception of class Exception
\* is reported and the loop goes on (line 125), any other ends the process,
\* and a response is displayed before the check of line 105
AfterCall(user_input, h) ==
    main' = [main EXCEPT !.orchestrator = TRUE,
                         !.inputs_read = @ + 1,
                         !.last_input = user_input,
                         !.pc = CASE h.raised = "none" -> "check"
                                  [] h.raised = "BaseException" -> "exited"
                                  [] OTHER -> "loop"]

\* lines 93-102 with no orchestrator: OrchestratorAgent() and
\* start_conversation
MainStart ==
    \E user_input \in MainInputs :
       /\ Read(user_input)
       /\ ~ main.orchestrator
       /\ IF AnalysisAgentInit(main.provider, main.google_key, main.groq_key) # "none"
          THEN /\ main' = [main EXCEPT !.inputs_read = @ + 1,
                                       !.last_input = user_input]
               /\ UNCHANGED orchestrator_vars
          ELSE /\ Apply("start", user_input, start_conversation(Orch, user_input))
               /\ AfterCall(user_input, start_conversation(Orch, user_input))
               /\ adapter' = ProviderError
       /\ UNCHANGED <<sessions, call>>

\* the call process_user_response(user_input) did h
MainResponded(user_input, llm, h) ==
    /\ Apply("respond", user_input, h)
    /\ AfterCall(user_input, h)
    /\ adapter' = llm

\* lines 97-102: process_user_response on the orchestrator there is
MainRespond ==
    \E user_input \in MainInputs :
       /\ Read(user_input)
       /\ main.orchestrator
       /\ \E drive \in DriveChoices(Orch, user_input) :
          \E llm \in (IF CallsLLM(process_user_response(Orch, user_input, drive,
                                                        ProviderError))
                      THEN MainCompletions ELSE {ProviderError}) :
             MainResponded(user_input, llm,
                           process_user_response(Orch, user_input, drive, llm))
       /\ UNCHANGED <<sessions, call>>

\* MainCheckComplete with the conversation taken for complete as soon as an
\* analysis has succeeded
MainCheckCompleteOnAnalysis ==
    /\ main.pc = "check"
    /\ IF state.analysis_complete
       THEN /\ main' = [main EXCEPT !.pc = "loop", !.orchestrator = FALSE]
            /\ Discard
       ELSE /\ main' = [main EXCEPT !.pc = "loop"]
            /\ UNCHANGED orchestrator_vars
    /\ UNCHANGED <<sessions, call>>

\* lines 105-119: a complete conversation ends, its orchestrator is dropped
MainCheckComplete ==
    /\ main.pc = "check"
    /\ IF is_complete(state)
       THEN /\ main' = [main EXCEPT !.pc = "loop", !.orchestrator = FALSE]
            /\ Discard
       ELSE /\ main' = [main EXCEPT !.pc = "loop"]
            /\ UNCHANGED orchestrator_vars
    /\ UNCHANGED <<sessions, call>>

MainNext ==
    MainStartup \/ MainCommand \/ MainStart \/ MainRespond \/ MainCheckComplete

MainSpec == MainInit /\ [][MainNext]_vars

(***************************************************************************)
(* functions/statistics.py: calculate_quarter_sales, called directly on a  *)
(* DataFrame with a date column and a sales column.                        *)
(***************************************************************************)
\* the longest DataFrame drawn from QuarterRows
MaxRows == 2

\* a cell of the sales column: a number, or text pd.to_numeric cannot read
Num(n) == [numeric |-> TRUE, n |-> n]
NotANumber == [numeric |-> FALSE, n |-> 0]

\* a row: the year and month of its date, and its sales cell
Row(year, month, sales) == [year |-> year, month |-> month, sales |-> sales]

\* the DataFrame of the fixture sample_sales_data of tests/test_statistics.py
sample_sales_data ==
    <<Row(2024, 11, Num(1000)), Row(2024, 11, Num(1500)),
      Row(2024, 12, Num(2000)), Row(2024, 12, Num(2500)),
      Row(2025, 1, Num(1800)), Row(2025, 1, Num(2200))>>

\* pd.to_numeric(cell, errors='coerce') with fillna(0)
ToNumeric(cell) == IF cell.numeric THEN cell.n ELSE 0

\* Series.isin(months) for one value
IsIn(x, months) == \E i \in DOMAIN months : months[i] = x

\* calculate_quarter_sales with the mask matching the year of 2024 as well
calculate_quarter_salesOfOneYear(data, months) ==
    LET InMonths(row) == IsIn(row.month, months) /\ row.year = 2024
        quarter_df == SelectSeq(data, InMonths)
    IN  SumSeq([i \in DOMAIN quarter_df |-> ToNumeric(quarter_df[i].sales)])

calculate_quarter_sales(data, months) ==
    LET InMonths(row) == IsIn(row.month, months)
        quarter_df == SelectSeq(data, InMonths)
    IN  SumSeq([i \in DOMAIN quarter_df |-> ToNumeric(quarter_df[i].sales)])

\* the rows and the lists of months the function is called with
QuarterRows ==
    {Row(2024, 11, Num(1000)), Row(2025, 1, Num(1800)), Row(2023, 12, Num(2000)),
     Row(2024, 3, Num(500)), Row(2025, 11, NotANumber)}

QuarterTables ==
    {sample_sales_data} \cup UNION {[1..n -> QuarterRows] : n \in 0..MaxRows}

MonthLists == {<<11, 12, 1>>, <<1>>, <<3>>, <<>>, <<12, 12>>}

\* nothing called yet
QuarterInit ==
    /\ call = NoCall
    /\ df = NoneDf
    /\ file_path = None
    /\ nTurns = 0
    /\ adapter = ProviderError
    /\ chart_png = NoChart
    /\ current_step = "initial"
    /\ state = NoState
    /\ turn = NoTurn
    /\ retrieved = FALSE
    /\ executed = FALSE
    /\ main = MainOff
    /\ sessions = NoSessions

\* calculate_quarter_sales(data, 'Sales', 'Date', months) returns
QuarterCall ==
    /\ \E data \in QuarterTables, months \in MonthLists :
          call' = [op |-> "calculate_quarter_sales", data |-> data,
                   months |-> months,
                   total |-> calculate_quarter_sales(data, months)]
    /\ UNCHANGED <<current_step, state, df, file_path, turn, retrieved, executed,
                   nTurns, adapter, chart_png, main, sessions>>

QuarterNext == QuarterCall

QuarterSpec == QuarterInit /\ [][QuarterNext]_vars

(***************************************************************************)
(* Properties.                                                             *)
(***************************************************************************)
NDS == "need_data_source"
NDP == "need_data_path"
READY == "ready_for_analysis"

Responded == turn.op = "respond"

\* the input names Drive as the source and carries a Drive URL
IsCompound(user_input) ==
    /\ detect_data_source(user_input) = "google_drive"
    /\ \/ Contains(user_input, "drive.google.com")
       \/ Contains(user_input, "docs.google.com")

\* the step a NEED_DATA_PATH handler leaves
AfterPathHandler ==
    IF turn.retrieval = "ok" /\ turn.load = "ok" THEN READY ELSE NDP

\* C1 as stated: after respond() the step is the one the transition table
\* gives: from NEED_DATA_SOURCE a classified input leads to NEED_DATA_PATH
\* and an unclassified one stays; from NEED_DATA_PATH the step is
\* READY_FOR_ANALYSIS exactly when retrieval and load succeeded;
\* READY_FOR_ANALYSIS stays.
C1_TableAsStated ==
    Responded =>
        CASE turn.step_before = NDS ->
                current_step = IF detect_data_source(turn.input) # None
                               THEN NDP ELSE NDS
          [] turn.step_before = NDP -> current_step = AfterPathHandler
          [] turn.step_before = READY -> current_step = READY
          [] OTHER -> TRUE

\* C1 (amended): as C1_TableAsStated, except that from NEED_DATA_SOURCE a
\* Drive input that carries a Drive URL is handled as a NEED_DATA_PATH input
\* in the same turn, and so leads to READY_FOR_ANALYSIS when retrieval and
\* load succeed; no other input from NEED_DATA_SOURCE starts a retrieval.
C1_TransitionTable ==
    Responded =>
        CASE turn.step_before = NDS ->
                IF detect_data_source(turn.input) = None
                THEN current_step = NDS /\ turn.retrieval = "none"
                ELSE IF IsCompound(turn.input)
                THEN current_step = AfterPathHandler
                ELSE current_step = NDP /\ turn.retrieval = "none"
          [] turn.step_before = NDP -> current_step = AfterPathHandler
          [] turn.step_before = READY -> current_step = READY
          [] OTHER -> TRUE

\* a source-and-link input has taken the step from NEED_DATA_SOURCE to
\* READY_FOR_ANALYSIS in one turn
C1_Witness ==
    /\ Responded
    /\ turn.step_before = NDS
    /\ IsCompound(turn.input)
    /\ current_step = READY

\* the call of execute_analysis of this turn, when there was one
Analysed == turn.analyses # <<>>
TheAnalysis == turn.analyses[1]

\* C2: in READY_FOR_ANALYSIS, when the execution succeeds, respond() records
\* the result, sets analysis-complete and returns the formatted message,
\* whatever the kind of the result; it does not raise.
C2_SuccessIsReturned ==
    (/\ Responded
     /\ turn.step_before = READY
     /\ Analysed
     /\ TheAnalysis.outcome = "success")
    => /\ turn.raised = "none"
       /\ state.analysis_complete
       /\ state.results = TheAnalysis.data
       /\ turn.response = _format_result(TheAnalysis.query, TheAnalysis.data)

\* the query of the end-to-end scenario of section 8
ScenarioQuery == "Show me this quarter's sales (Nov, Dec, Jan)"

\* C3: the end-to-end scenario: the data query puts the step at
\* NEED_DATA_SOURCE, the reply "local" at NEED_DATA_PATH, the reply with a
\* valid CSV path loads the dataset, puts the step at READY_FOR_ANALYSIS and
\* re-runs the original query, and when the generated code yields the
\* numeric total the turn returns a response containing the formatted total.
C3_EndToEnd ==
    /\ (turn.op = "start" /\ turn.input = ScenarioQuery) => current_step = NDS
    /\ (Responded /\ turn.step_before = NDS /\ turn.input = "local")
          => current_step = NDP
    /\ (/\ Responded
        /\ turn.step_before = NDP
        /\ state.data_source = "local"
        /\ state.original_query = ScenarioQuery
        /\ turn.input = "data.csv")
          => /\ current_step = READY
             /\ df.some
             /\ Analysed
             /\ TheAnalysis.query = ScenarioQuery
             /\ (TheAnalysis.outcome = "success" /\ TheAnalysis.data.kind = "Number")
                   => /\ turn.raised = "none"
                      /\ Contains(turn.response, Format2f(SumSeq(SampleRows)))

\* the stages of a turn that can fail
RetrievalFailed == turn.retrieval = "failed"
LoadFailed == turn.load = "failed"
AnalysisFailedAs(outcomes) == Analysed /\ TheAnalysis.outcome \in outcomes

\* the response tells of a failure and carries no result
ReportsFailure(response) ==
    /\ Contains(response, "[x]") \/ Contains(response, "Failed")
    /\ ~ Contains(response, "**Result")
    /\ ~ Contains(response, "Analysis complete!")

StepWhenFailing ==
    IF turn.retrieval = "none" THEN turn.step_before ELSE AfterPathHandler

Denylisted(code) ==
    \E i \in DOMAIN unsafe_keywords : Contains(code, unsafe_keywords[i])

\* C5: code that contains a denylisted substring is rejected and no part of
\* it runs: the dataset afterwards is the dataset before, and no output
\* value is produced.
C5_UnsafeCodeRejected ==
    \A i \in DOMAIN turn.analyses :
        LET a == turn.analyses[i]
        IN  (a.code # None /\ Denylisted(a.code))
            => /\ a.outcome = "rejected"
               /\ a.message = " Code Execution Failed: Unsafe code detected"
               /\ a.rows_after = a.rows_before
               /\ df.rows = a.rows_before
               /\ a.data = NoneV

\* denylisted code was submitted for a dataset that has rows
C5_Witness ==
    /\ Analysed
    /\ TheAnalysis.code # None
    /\ Denylisted(TheAnalysis.code)
    /\ TheAnalysis.rows_before # <<>>
    /\ TheAnalysis.outcome = "rejected"

\* C6: dataset-loaded is true only if a retrieval has returned a local path
\* in this session, and analysis-complete only if a Sandbox execution has
\* succeeded in this session.
C6_FlagsFollowEvents ==
    /\ state.dataframe_loaded => retrieved
    /\ state.analysis_complete => executed

\* both flags are set
C6_Witness == state.dataframe_loaded /\ state.analysis_complete

\* C7: start(query), on an orchestrator in any step, installs a fresh
\* SessionState that records the query, and leaves the step at
\* NEED_DATA_SOURCE when the query has one of the keywords and at INITIAL
\* otherwise.
C7_StartBeginsAfresh ==
    turn.op = "start" =>
        /\ state.original_query = turn.input
        /\ ~ state.dataframe_loaded
        /\ ~ state.analysis_complete
        /\ state.data_source = None
        /\ Len(state.messages) = 2
        /\ current_step = IF _query_needs_data(turn.input) THEN NDS ELSE "initial"

\* C8: in NEED_DATA_SOURCE an input classified drive that carries a Drive
\* URL is retrieved in the same turn: the turn does not return the
\* ask-for-path prompt, and ends in READY_FOR_ANALYSIS when retrieval and
\* load succeed and in NEED_DATA_PATH otherwise.
C8_CompoundInput ==
    (Responded /\ turn.step_before = NDS /\ IsCompound(turn.input))
    => /\ turn.retrieval # "none"
       /\ turn.retrieval_source = "google_drive"
       /\ turn.retrieval_path = turn.input
       /\ turn.response # ask_for_path("google_drive")
       /\ current_step = AfterPathHandler

\* a source-and-link input was retrieved, the file could not be loaded, and
\* the turn ended in NEED_DATA_PATH
C8_Witness ==
    /\ Responded
    /\ turn.step_before = NDS
    /\ IsCompound(turn.input)
    /\ turn.retrieval = "ok"
    /\ turn.load = "failed"
    /\ current_step = NDP

\* C9: when retrieval and load both succeed the step is READY_FOR_ANALYSIS
\* and the turn runs exactly one analysis, on the original query; the
\* response is the retrieval confirmation followed by the analysis response.
C9_AutoAnalysis ==
    (Responded /\ turn.retrieval = "ok" /\ turn.load = "ok")
    => /\ current_step = READY
       /\ Len(turn.analyses) = 1
       /\ TheAnalysis.query = state.original_query
       /\ turn.raised = "none"
       /\ turn.response =
             turn.retrieval_message \o "\n\n" \o
             (IF TheAnalysis.message = None THEN "Analysis complete!"
                                            ELSE TheAnalysis.message)

\* C10 as stated: when retrieval or load fails the step stays
\* NEED_DATA_PATH and the response is the failing collaborator's message:
\* the retrieval message, or the dataset reader's error text.
C10_AsStated ==
    /\ (Responded /\ RetrievalFailed)
          => current_step = NDP /\ turn.response = turn.retrieval_message
    /\ (Responded /\ LoadFailed)
          => current_step = NDP /\ turn.response = turn.reader_error

\* C10 (amended): when retrieval fails the step stays NEED_DATA_PATH and the
\* response is the retrieval message; when the load fails the step stays
\* NEED_DATA_PATH and the response is the retrieval confirmation followed by
\* a fixed text, without the reader's error text.
C10_FailureMessages ==
    /\ (Responded /\ RetrievalFailed)
          => current_step = NDP /\ turn.response = turn.retrieval_message
    /\ (Responded /\ LoadFailed)
          => /\ current_step = NDP
             /\ turn.response = turn.retrieval_message
                                 \o "\n\n[x] Failed to load data for analysis."
             /\ ~ Contains(turn.response, turn.reader_error)

\* a file was found and the reader refused it
C10_Witness ==
    /\ Responded
    /\ turn.step_before = NDP
    /\ LoadFailed
    /\ turn.reader_error # None

\* the session state of a conversation that has not begun
NewConversation == state \in {NoState, ConversationState}

\* C11: respond() in a step that is none of NEED_DATA_SOURCE, NEED_DATA_PATH
\* and READY_FOR_ANALYSIS returns an error response and resets the
\* conversation: the step is INITIAL and the session state is that of a new
\* conversation.
C11_UnknownStepResets ==
    (Responded /\ turn.step_before \notin {NDS, NDP, READY})
    => /\ turn.raised = "none"
       /\ Contains(turn.response, "Let's start over")
       /\ current_step = "initial"
       /\ NewConversation

\* the input matches none of the patterns of detect_data_source
MatchesNoPattern(user_input) ==
    /\ ~ AnyIn({"drive", "google", "gdrive", "s3", "aws", "bucket",
                "local", "file", "computer", "disk"}, Lower(user_input))
    /\ ~ PathExists(user_input)

\* C12: in NEED_DATA_SOURCE the source recorded for an input is the one its
\* pattern gives: s3 for an input that starts with s3://, local for an
\* existing path, drive for an input containing drive.google.com or
\* docs.google.com, and none for an input that matches no pattern.
C12_DetectAsListed ==
    (Responded /\ turn.step_before = NDS)
    => /\ StartsWith(turn.input, "s3://") => state.data_source = "s3"
       /\ PathExists(turn.input) => state.data_source = "local"
       /\ (Contains(turn.input, "drive.google.com")
           \/ Contains(turn.input, "docs.google.com"))
              => state.data_source = "google_drive"
       /\ MatchesNoPattern(turn.input) => state.data_source = None

\* C13: when the generated code raises in the Sandbox the exception is
\* caught: the engine returns an execution failure that carries the reason
\* text and no output value, and the turn does not raise.
C13_RaisedIsCaught ==
    \A i \in DOMAIN turn.analyses :
        LET a == turn.analyses[i]
        IN  a.outcome \in {"execution_failed", "escaped"}
            => /\ a.outcome = "execution_failed"
               /\ StartsWith(a.message, " Code Execution Failed: ")
               /\ a.data = NoneV
               /\ turn.raised = "none"

\* names that are not among the six bindings of local_vars
AmbientNames == {"len", "ValueError", "SystemExit", "os"}

\* C14: executed code can resolve no name outside the six bindings of the
\* namespace: code that was run and uses another name, a built-in
\* included, fails with that name reported as not defined.
C14_ClosedNamespace ==
    \A i \in DOMAIN turn.analyses :
        LET a == turn.analyses[i]
        IN  (/\ a.code # None
             /\ a.outcome # "rejected"
             /\ \E n \in AmbientNames : Contains(a.code, n))
            => /\ a.outcome = "execution_failed"
               /\ \E n \in AmbientNames :
                     a.message = " Code Execution Failed: name '" \o n
                                 \o "' is not defined"

\* the adapter failed, or its completion is empty once the fences are
\* stripped
NoCodeGenerated(query) ==
    adapter.fails \/ _generate_code(query, adapter) = ""

\* C15: every execute() on a loaded dataset calls the LLM adapter exactly
\* once; when the adapter fails or the completion is empty after fence
\* stripping, it returns the generation failure without another adapter call
\* and without the Sandbox: no code ran, the dataset and the chart file are
\* untouched and there is no output value.
C15_OneAdapterCall ==
    \A i \in DOMAIN turn.analyses :
        LET a == turn.analyses[i]
        IN  a.outcome # "no_data"
            => /\ a.llm_calls = 1
               /\ NoCodeGenerated(a.query)
                     => /\ a.outcome = "generation_failed"
                        /\ a.message = "Failed to generate analysis code."
                        /\ a.code = None
                        /\ a.rows_after = a.rows_before
                        /\ a.data = NoneV
                        /\ ~ a.chart.written
               /\ a.outcome = "generation_failed" => NoCodeGenerated(a.query)

\* the adapter returned fences with nothing between them, and the turn
\* reported the generation failure
C15_Witness ==
    /\ Analysed
    /\ ~ adapter.fails
    /\ adapter.content # ""
    /\ TheAnalysis.outcome = "generation_failed"
    /\ TheAnalysis.rows_before # <<>>

\* C16: execute() with no dataset loaded returns at once a failure that
\* carries the "no data" error, which its callers see as a failure with
\* that error as its message; it calls neither the LLM adapter nor the
\* Sandbox.
C16_NoDataFailsFast ==
    (call.op = "execute_analysis" /\ ~ df.some)
    => /\ call.res.outcome = "no_data"
       /\ call.res.error = "No data loaded"
       /\ call.res.llm_calls = 0
       /\ call.res.code = None
       /\ call.res.success = "false"
       /\ call.response = "No data loaded"

\* C17 as stated: no sequence of start() and respond() sets the output
\* artifact path, so that is_complete() is false in every reachable state.
C17_AsStated ==
    /\ state.output_file_path = None
    /\ ~ is_complete(state)

\* the turn's analysis succeeded with a dict that has an output_file entry
ResultNamesOutputFile ==
    /\ Analysed
    /\ TheAnalysis.outcome = "success"
    /\ TheAnalysis.data.kind = "Dict"
    /\ TheAnalysis.data.s # ""

\* C17 (amended): the output artifact path is set only by a turn whose
\* analysis succeeds with a result that has a non-empty output_file entry,
\* to that entry, and cleared only by start(); such a turn also sets
\* analysis-complete, so that is_complete() is true after it when the
\* dataset-loaded flag is set.
C17_OutputPathFromResult ==
    [][/\ state'.output_file_path # state.output_file_path
          => \/ turn'.op = "start" /\ state'.output_file_path = None
             \/ /\ ResultNamesOutputFile'
                /\ state'.output_file_path = TheAnalysis'.data.s
       /\ (Responded' /\ ResultNamesOutputFile')
          => /\ state'.output_file_path = TheAnalysis'.data.s
             /\ state'.analysis_complete
             /\ is_complete(state') <=> state'.dataframe_loaded]_vars

\* a conversation is complete: the generated code returned a dict naming an
\* output file
C17_Witness ==
    /\ is_complete(state)
    /\ ResultNamesOutputFile
    /\ state.output_file_path = "out.xlsx"

\* C18: two sessions whose turns interleave write no state in common: the
\* chart file a session has produced is the one it would have produced
\* running alone, also when both sessions run chart-producing analyses.
C18_SessionsIndependent ==
    \A s \in SessionIds :
        sessions[s].chart.written => chart_png = sessions[s].chart

\* the step discards the orchestrator of the session
SessionReset == main.orchestrator /\ ~ main'.orchestrator

\* the session's last call was a respond() that met an unrecognized step
UnrecognizedStepMet ==
    turn.op = "respond" /\ turn.step_before \notin {NDS, NDP, READY}

\* C19 as stated: the session is reset only when the user enters the reset
\* command or when an unrecognized step was met; no completed turn resets
\* it.
C19_AsStated ==
    [][SessionReset => (main'.last_input = "new" \/ UnrecognizedStepMet)]_vars

\* C19 (amended): the session is reset only when the user enters the reset
\* command, when an unrecognized step was met, or after a completed turn
\* that leaves the conversation complete: dataset-loaded, analysis-complete
\* and an output path all set.
C19_ResetOnCommandOrComplete ==
    [][SessionReset
         => \/ main'.last_input = "new"
            \/ UnrecognizedStepMet
            \/ /\ main.pc = "check"
               /\ turn.raised = "none"
               /\ main.last_input = turn.input
               /\ state.dataframe_loaded
               /\ state.analysis_complete
               /\ state.output_file_path # None]_vars

\* the orchestrator was dropped after a turn whose analysis named an output
\* file, without the reset command
C19_Witness ==
    /\ main.pc = "loop"
    /\ ~ main.orchestrator
    /\ main.last_input = turn.input
    /\ Responded
    /\ ResultNamesOutputFile

\* the credential the configured provider needs is not set
CredentialMissing ==
    IF main.provider = "groq" THEN ~ main.groq_key ELSE ~ main.google_key

\* C20: when the credential of the configured provider is missing, the
\* program aborts at startup, whatever the provider setting: it reads no
\* input, constructs no orchestrator and starts no session.
C20_AbortsAtStartup ==
    (main.pc \notin {"off", "startup"} /\ CredentialMissing)
    => /\ main.pc = "aborted"
       /\ main.inputs_read = 0
       /\ ~ main.orchestrator
       /\ turn.op = "none"

\* a call of execute_analysis has returned a result of the given kind
ExecutedWith(kind) ==
    /\ call.op = "execute_analysis"
    /\ call.res.outcome = "success"
    /\ call.res.data.kind = kind

\* C21 as stated: for a Text result the formatted message is the result
\* string itself, unchanged.
C21_AsStated ==
    ExecutedWith("Text") => call.res.message = call.res.data.s

\* C21 (amended): for a Text result the formatted message is the label
\* "**Result:** " followed by the result string unchanged.
C21_TextIsLabelled ==
    ExecutedWith("Text") => call.res.message = "**Result:** " \o call.res.data.s

\* the chart program has returned its confirmation string
C21_Witness ==
    /\ ExecutedWith("Text")
    /\ call.res.data.s = "Chart saved to temp_downloads/chart.png"
    /\ call.res.message # call.res.data.s

\* the rows of data whose date falls in one of the months, whatever the year
RowsInMonths(data, months) ==
    {i \in DOMAIN data : \E j \in DOMAIN months : data[i].month = months[j]}

RECURSIVE SalesOf(_, _)
\* the sum of the sales values of the rows of data with an index in rows
SalesOf(data, rows) ==
    IF rows = {} THEN 0
    ELSE LET i == CHOOSE k \in rows : TRUE
         IN  (IF data[i].sales.numeric THEN data[i].sales.n ELSE 0)
             + SalesOf(data, rows \ {i})

\* C22: calculate_quarter_sales returns the sum of the sales values of
\* exactly the rows whose date falls in one of the given months, whatever
\* the year; for the six rows of the fixture and the months 11, 12 and 1 the
\* total is 11000.
C22_QuarterTotal ==
    call.op = "calculate_quarter_sales" =>
        /\ call.total = SalesOf(call.data, RowsInMonths(call.data, call.months))
        /\ (call.data = sample_sales_data /\ call.months = <<11, 12, 1>>)
              => call.total = 11000

\* the total of the fixture, its January rows being of another year than the
\* others
C22_Witness ==
    /\ call.op = "calculate_quarter_sales"
    /\ call.data = sample_sales_data
    /\ call.months = <<11, 12, 1>>
    /\ call.total = 11000
    /\ \E i, j \in DOMAIN call.data : call.data[i].year # call.data[j].year

\* a character a language tag is made of
IsTagChar(c) == Contains(UpperCase \o LowerCase \o "0123456789", c)

RECURSIVE WithoutFences(_)
\* text with every fence marker removed together with the tag that follows it
WithoutFences(text) ==
    IF ~ Contains(text, "~~~") THEN text
    ELSE LET n == Len(text)
             i == CHOOSE k \in 1..n :
                     /\ SubSeq(text, k, k + 2) = "~~~"
                     /\ \A j \in 1..(k - 1) : SubSeq(text, j, j + 2) # "~~~"
             e == CHOOSE k \in (i + 3)..(n + 1) :
                     /\ k = n + 1 \/ ~ IsTagChar(SubSeq(text, k, k))
                     /\ \A j \in (i + 3)..(k - 1) : IsTagChar(SubSeq(text, j, j))
         IN  SubSeq(text, 1, i - 1) \o WithoutFences(SubSeq(text, e, n))

\* C23: the code handed to the Sandbox contains no fence marker: every fence
\* marker of the completion, and every opening marker with a language tag,
\* whatever the language, is removed together with its tag, so that only the
\* code text remains.
C23_NoFenceNoTag ==
    (call.op = "execute_analysis" /\ call.res.code # None)
    => /\ ~ Contains(call.res.code, "~~~")
       /\ call.res.code = Strip(WithoutFences(adapter.content))

\* C24: load_data succeeds whenever the reader succeeds, whether or not the
\* insight computation fails: a failing insight computation changes neither
\* the stored dataset nor the value load_data returns.
C24_InsightsNeverAbortLoad ==
    call.op = "load_data" =>
        /\ call.ok <=> read_sales_data(call.arg).ok
        /\ read_sales_data(call.arg).ok
              => /\ df = DataFrame(read_sales_data(call.arg).rows)
                 /\ file_path = call.arg
        /\ ~ read_sales_data(call.arg).ok
              => df = call.before

\* a file was loaded whose insight computation raises
C24_Witness ==
    /\ call.op = "load_data"
    /\ call.ok
    /\ calculate_insights(call.arg) = "Exception"
    /\ df = DataFrame(<<700, 300>>)

\* the order of the steps
StepRank(step) ==
    CASE step = "initial" -> 0
      [] step = NDS -> 1
      [] step = NDP -> 2
      [] step = READY -> 3

\* C25: respond() never moves the step backwards in the order INITIAL,
\* NEED_DATA_SOURCE, NEED_DATA_PATH, READY_FOR_ANALYSIS: the step after the
\* turn is the step before it or a later one; from READY_FOR_ANALYSIS it is
\* READY_FOR_ANALYSIS, whether the analysis succeeds, fails or is rejected,
\* and from INITIAL it is INITIAL.
C25_StepNeverMovesBack ==
    Responded =>
        /\ StepRank(current_step) >= StepRank(turn.step_before)
        /\ turn.step_before = READY => current_step = READY
        /\ turn.step_before = "initial" => current_step = "initial"

\* in READY_FOR_ANALYSIS the generated code was rejected, and the step is
\* still READY_FOR_ANALYSIS
C25_Witness ==
    /\ Responded
    /\ turn.step_before = READY
    /\ AnalysisFailedAs({"rejected"})
    /\ current_step = READY

\* C26: respond() never changes a source kind the session has recorded, and
\* a retrieval it makes for a session with a recorded kind uses that kind,
\* whatever the input looks like; a session whose recorded source is s3 is
\* never in READY_FOR_ANALYSIS.
C26_RecordedSourceIsKept ==
    /\ [][(turn'.op = "respond" /\ ~ state.none /\ state.data_source # None)
          => /\ state'.data_source = state.data_source
             /\ turn'.retrieval # "none"
                   => turn'.retrieval_source = state.data_source]_vars
    /\ [](state.data_source = "s3" => current_step # READY)

\* the source recorded is s3, and an input that names an existing local file
\* was retrieved as s3
C26_Witness ==
    /\ Responded
    /\ turn.step_before = NDP
    /\ state.data_source = "s3"
    /\ turn.input = "data.csv"
    /\ detect_data_source(turn.input) = "local"
    /\ turn.retrieval_source = "s3"
    /\ RetrievalFailed
    /\ current_step = NDP

\* the roles of the message history alternate, a user's message first
Alternates(messages) ==
    \A i \in DOMAIN messages :
        messages[i].role = IF i % 2 = 1 THEN "user" ELSE "assistant"

\* C27: a respond() turn that returns a response ends with its two entries
\* at the end of the message history, the user's input and then the returned
\* response as the assistant's entry, and the history alternates between
\* user and assistant.
C27_TwoEntriesPerTurn ==
    (Responded /\ turn.raised = "none" /\ ~ state.none)
    => /\ Len(state.messages) >= 2
       /\ state.messages[Len(state.messages)]
             = [role |-> "assistant", content |-> turn.response]
       /\ state.messages[Len(state.messages) - 1]
             = [role |-> "user", content |-> turn.input]
       /\ Alternates(state.messages)

\* C28: in every reachable state, if the dataset-loaded flag of the session
\* is true then the engine holds a loaded dataset and the step is
\* READY_FOR_ANALYSIS; the flag is not true while the engine has no dataset.
C28_LoadedFlagMeansLoaded ==
    (~ state.none /\ state.dataframe_loaded)
    => /\ df.some
       /\ current_step = READY

\* C29: in every reachable state of an orchestrator, if the step is
\* READY_FOR_ANALYSIS then the engine holds a loaded dataset, and no turn of
\* the orchestrator gets the "no data" outcome from execute_analysis.
C29_ReadyHasData ==
    /\ current_step = READY => df.some
    /\ \A i \in DOMAIN turn.analyses : turn.analyses[i].outcome # "no_data"

\* a query was analysed in READY_FOR_ANALYSIS, on the dataset a turn before
\* it had loaded
C29_Witness ==
    /\ Responded
    /\ turn.step_before = READY
    /\ current_step = READY
    /\ turn.df_before.some
    /\ Analysed
    /\ TheAnalysis.outcome = "success"

\* execute_analysis has run generated code on a dataset of at least two rows
RanCode(code) ==
    /\ call.op = "execute_analysis"
    /\ call.res.code = code
    /\ Len(call.before.rows) >= 2

\* C30: execute_analysis never replaces the dataset the engine holds: after
\* a call, successful or failed, the engine still holds a dataset exactly
\* when it did before, and it is the dataset of before unless the code
\* changed it in place.  Code that binds the name df anew leaves the
\* engine's dataset as it was, whatever it does to the new object, while a
\* row dropped in place is gone from the engine's dataset, also when the run
\* then failed.
C30_DatasetNeverReplaced ==
    /\ call.op = "execute_analysis"
          => /\ df.some = call.before.some
             /\ (call.res.code = None \/ ~ Contains(call.res.code, "inplace=True"))
                   => df = call.before
    /\ RanCode("result = df")
          => call.res.data = TableV(call.before.rows)
    /\ RanCode("df = df.head(1)\nresult = df")
          => /\ call.res.data = TableV(<<call.before.rows[1]>>)
             /\ df = call.before
    /\ RanCode("df = df.head(1)\ndf.drop(df.index[0], inplace=True)\nresult = df")
          => /\ call.res.data = TableV(<<>>)
             /\ df = call.before
    /\ RanCode("df.drop(df.index[0], inplace=True)\nresult = df\nraise ValueError('bad')")
          => /\ call.res.outcome = "execution_failed"
             /\ df = DataFrame(Tail(call.before.rows))
    /\ RanCode("df.drop(df.index[0], inplace=True)\nraise SystemExit")
          => /\ call.res.outcome = "escaped"
             /\ df = DataFrame(Tail(call.before.rows))

\* code that bound df to its first row has run after a run that dropped a
\* row in place and failed: it returned the first of the rows that were left
C30_Witness ==
    /\ RanCode("df = df.head(1)\nresult = df")
    /\ call.before.rows = Tail(SampleRows)
    /\ call.res.data = TableV(<<SampleRows[2]>>)
    /\ df = DataFrame(Tail(SampleRows))

====
